---- MODULE Spec2Model ----
(***************************************************************************)
(* watchstat: the polling watch loop (watchstat, try_stat) and the token   *)
(* interpolator (find_tokens, interpolate_argument) of                     *)
(* src/src/watchstat/__init__.py.                                          *)
(*                                                                         *)
(* Time is counted in whole seconds from the call of watchstat (the first  *)
(* reading of time.time() is second 0); every later reading of the clock   *)
(* is a nondeterministic value not before the previous one.  The file      *)
(* system is the environment: every os.stat call yields any status, or     *)
(* ENOENT, or another OS error.                                            *)
(***************************************************************************)
EXTENDS Integers, Sequences, FiniteSets, TLC

(* ------------------------------------------------------------------ *)
(* Bounds of the model                                                  *)
(* ------------------------------------------------------------------ *)
MaxLimit == 2      \* limit is drawn from 0..MaxLimit
MaxTimeout == 2    \* softtimeout is drawn from 0..MaxTimeout

\* Clock readings are 0..MaxClock: the soft deadline can be passed by two
\* seconds.  timeout is drawn from 0..MaxClock, so that a hard deadline can
\* lie more than a second after a soft deadline that follows a first poll.
MaxClock == MaxTimeout + 2
\* The callback is not invoked more often than this (limit = 0 sets no limit).
MaxCalls == MaxLimit + 1
\* The values of a status field; the loop only compares them.
Values == {0, 1}

(* ------------------------------------------------------------------ *)
(* stat field indexes (the ST_* constants the registry is keyed by)     *)
(* ------------------------------------------------------------------ *)
ST_MODE == 0
ST_INO == 1
ST_DEV == 2
ST_NLINK == 3
ST_UID == 4
ST_GID == 5
ST_SIZE == 6
ST_ATIME == 7
ST_MTIME == 8
ST_CTIME == 9

Fields == {ST_MODE, ST_INO, ST_DEV, ST_NLINK, ST_UID, ST_GID, ST_SIZE,
           ST_ATIME, ST_MTIME, ST_CTIME}

\* The fields whose value the modelled file system changes; the others are 0.
VaryingFields == {ST_MTIME, ST_ATIME}

\* sys.maxsize, the deadline of a timeout that is off (its 32-bit value).
sys_maxsize == 2147483647

\* Python's None: try_stat's result for a missing path, "no snapshot".
None == << >>

\* The loop variable path before the first for iteration.
NoPath == ""

\* The results os.stat can return for an existing path.
StatResults ==
    {[f \in Fields |-> IF f \in VaryingFields THEN v[f] ELSE 0] :
        v \in [VaryingFields -> Values]}

\* What one os.stat call does: a status, or errno ENOENT, or another errno.
StatOutcomes == StatResults \cup {<<"ENOENT">>, <<"EACCES">>}

\* The watch-lists watchstat is called with: (path, fields) pairs.
Watchlists ==
    { << [path |-> "p1", fields |-> {}] >>,
      << [path |-> "p1", fields |-> {}],
         [path |-> "p2", fields |-> {ST_MTIME, ST_ATIME}] >>,
      << [path |-> "p2", fields |-> {ST_ATIME}],
         [path |-> "p1", fields |-> {ST_MTIME}] >> }

Intervals == {1000, 2000}

CallbackResults == {"True", "False", "None"}

Min2(a, b) == IF a <= b THEN a ELSE b

VARIABLES
    mode,          \* which program runs: "watch" or "interp"
    pc,            \* position in watchstat
    watchlist, interval, limit, retry,   \* arguments of watchstat
    softtimeout, timeout,   \* arguments, then (after line 191) the deadlines
    now,           \* last reading of time.time()
    ncalls,        \* callback invocations made
    stats,         \* path -> last known status, or None
    idx,           \* position of the for loop in watchlist
    continu,       \* the local continu
    path, last_status, next_status, diff_fields,  \* locals of the last
                   \* for iteration that ran to line 214
    stat_errno,    \* what the last os.stat call did: "OK" or the errno raised
    stop_requested,   \* the callback has returned False
    cb,            \* arguments of the callback invocation of the last for
                   \* iteration, None when it made none
    outcome,       \* how watchstat ended
    retval,        \* the value it returned
    string, delim, status, extra_keys,   \* arguments of interpolate_argument
    result,        \* what interpolate_argument returned or raised
    argv,          \* argument of interpolate_argument_vector
    exit_status    \* what main returned or raised, None while it runs

args == <<watchlist, interval, limit, retry>>

locals == <<path, last_status, next_status, diff_fields, cb>>

watchvars == <<pc, args, softtimeout, timeout, now, ncalls, stats, idx,
               continu, locals, stat_errno, stop_requested, outcome, retval>>

interpvars == <<string, delim, status, extra_keys, result, argv>>

mainvars == <<exit_status>>

vars == <<mode, watchvars, interpvars, mainvars>>

(* ------------------------------------------------------------------ *)
(* try_stat                                                             *)
(* ------------------------------------------------------------------ *)
\* try_stat with the retry flag ignored: a missing path always raises.
try_stat_raises_NoRetry(r, rtry) ==
    \/ r = <<"EACCES">>
    \/ r = <<"ENOENT">>

\* TRUE when try_stat raises for what os.stat did.
try_stat_raises(r, rtry) ==
    \/ r = <<"EACCES">>
    \/ r = <<"ENOENT">> /\ ~rtry

\* try_stat's return value when it does not raise.
try_stat(r, rtry) == IF r = <<"ENOENT">> THEN None ELSE r

\* The OSError try_stat lets through, told apart by its errno.
try_stat_error(r) == IF r = <<"ENOENT">> THEN "OSError_ENOENT" ELSE "OSError"

\* The errno of an os.stat call, "OK" when it returned a status.
Errno(r) == IF r \in {<<"ENOENT">>, <<"EACCES">>} THEN r[1] ELSE "OK"

\* Line 235 written as "if not continu": None would end the loop too.
CallbackStops_Falsy(ret) == ret # "True"

\* Line 235: the callback's return value ends the loop.
CallbackStops(ret) == ret # "None" /\ ret = "False"

(* ------------------------------------------------------------------ *)
(* watchstat                                                            *)
(* ------------------------------------------------------------------ *)
\* Lines 190-191: an absolute deadline, sys.maxsize when the timeout is off.
Deadline(n, t) == IF t # 0 THEN n + t ELSE sys_maxsize

\* Lines 197-201: the while condition.
WhileCond(nc, n) ==
    /\ (limit <= 0 \/ nc < limit)
    /\ (nc > 0 \/ n < softtimeout)
    /\ n < timeout

\* Line 204.
sleep_dur == Min2(Min2(softtimeout - now, timeout - now), interval \div 1000)

\* Line 207: the check after the sleep.
DeadlineReached(nc, n) == (nc = 0 /\ n >= softtimeout) \/ n >= timeout

\* Lines 240-244 with the limit test off by one.
StopAfterPath_NoLimit(nc, n) ==
    \/ (limit > 0 /\ nc > limit)
    \/ (nc = 0 /\ n >= softtimeout)
    \/ n >= timeout

\* Lines 240-244: the check after each path.
StopAfterPath(nc, n) ==
    \/ (limit > 0 /\ nc >= limit)
    \/ (nc = 0 /\ n >= softtimeout)
    \/ n >= timeout

\* Lines 252-258 with the soft timeout not tied to ncalls == 0.
FinalOutcome_SoftAlways(nc, n) ==
    IF n >= softtimeout THEN "SoftTimeout"
    ELSE IF n >= timeout THEN "Timeout"
    ELSE "return"

\* Lines 252-258 with the hard deadline compared by > in place of >=.
FinalOutcome_StrictTimeout(nc, n) ==
    IF nc = 0 /\ n >= softtimeout THEN "SoftTimeout"
    ELSE IF n > timeout THEN "Timeout"
    ELSE "return"

\* Lines 252-258: what watchstat does once the loop is left.
FinalOutcome(nc, n) ==
    IF nc = 0 /\ n >= softtimeout THEN "SoftTimeout"
    ELSE IF n >= timeout THEN "Timeout"
    ELSE "return"

\* Lines 211-212 with an empty field list taken as every field.
EffectiveFields_All(fields) == IF fields = {} THEN Fields ELSE fields

\* Lines 211-212: an empty field list means modification time.
EffectiveFields(fields) == IF fields = {} THEN {ST_MTIME} ELSE fields

\* Lines 219-229 without lines 228-229: a path just created shows no difference.
DiffFields_NoCreate(fields, last, next) ==
    IF last = None THEN {}
    ELSE {f \in fields : last[f] # next[f]}

\* Lines 219-229 with every configured field reported once any differs.
DiffFields_Configured(fields, last, next) ==
    IF last = None THEN fields
    ELSE IF \E f \in fields : last[f] # next[f] THEN fields ELSE {}

\* Lines 219-229: the fields that differ, all of them for a path just created.
DiffFields(fields, last, next) ==
    IF last = None THEN fields
    ELSE {f \in fields : last[f] # next[f]}

\* A reading of time.time() not before lo.
ClockReadings(lo) == lo..MaxClock

\* Line 258 returning the limit in place of the call count.
Leave_ReturnsLimit(nc, n) ==
    /\ pc' = "done"
    /\ outcome' = FinalOutcome(nc, n)
    /\ retval' = IF FinalOutcome(nc, n) = "return" THEN limit ELSE None

\* The loop is left with call count nc and clock reading n.
Leave(nc, n) ==
    /\ pc' = "done"
    /\ outcome' = FinalOutcome(nc, n)
    /\ retval' = IF FinalOutcome(nc, n) = "return" THEN nc ELSE None

\* An exception e propagates out of watchstat.
Raise(e) ==
    /\ pc' = "done"
    /\ outcome' = e
    /\ retval' = None

\* The interpolator's variables while watchstat runs.
InterpIdle ==
    /\ string = << >>
    /\ delim = << >>
    /\ status = None
    /\ extra_keys = << >>
    /\ result = None
    /\ argv = << >>

Init ==
    /\ mode = "watch"
    /\ pc = "start"
    /\ watchlist \in Watchlists
    /\ interval \in Intervals
    /\ limit \in 0..MaxLimit
    /\ retry \in BOOLEAN
    /\ softtimeout \in 0..MaxTimeout
    /\ timeout \in 0..MaxClock
    /\ now = 0
    /\ ncalls = 0
    /\ stats = None
    /\ idx = 0
    /\ continu = "True"
    /\ path = NoPath
    /\ last_status = None
    /\ next_status = None
    /\ diff_fields = {}
    /\ stat_errno = "OK"
    /\ stop_requested = FALSE
    /\ cb = None
    /\ outcome = "running"
    /\ retval = None
    /\ InterpIdle
    /\ exit_status = None

\* Lines 189-195: the deadlines, and the first status of every path, taken in
\* watch-list order up to the first os.stat that try_stat lets raise.
Start ==
    /\ mode = "watch" /\ pc = "start"
    /\ softtimeout' = Deadline(now, softtimeout)
    /\ timeout' = Deadline(now, timeout)
    /\ \E r \in [{watchlist[i].path : i \in 1..Len(watchlist)} -> StatOutcomes] :
         LET bad == {i \in 1..Len(watchlist) :
                       try_stat_raises(r[watchlist[i].path], retry)}
             first == CHOOSE i \in bad : \A j \in bad : i <= j
         IN IF bad # {}
            THEN /\ Raise(try_stat_error(r[watchlist[first].path]))
                 /\ stat_errno' = Errno(r[watchlist[first].path])
                 /\ UNCHANGED stats
            ELSE /\ stats' = [p \in DOMAIN r |-> try_stat(r[p], retry)]
                 /\ stat_errno' = Errno(r[watchlist[Len(watchlist)].path])
                 /\ pc' = "while"
                 /\ UNCHANGED <<outcome, retval>>
    /\ UNCHANGED <<mode, interpvars, mainvars,
                   args, now, ncalls, idx, continu, locals,
                   stop_requested>>

\* Lines 197-201 with a false condition: the loop ends.
LoopExit ==
    /\ mode = "watch" /\ pc = "while"
    /\ ~WhileCond(ncalls, now)
    /\ Leave(ncalls, now)
    /\ UNCHANGED <<mode, interpvars, mainvars,
                   args, softtimeout, timeout, now, ncalls,
                   stats, idx, continu, locals, stat_errno, stop_requested>>

\* Lines 203-205 when time.sleep rejects a negative duration.
SleepRaises ==
    /\ mode = "watch" /\ pc = "while"
    /\ WhileCond(ncalls, now)
    /\ sleep_dur < 0
    /\ Raise("ValueError")
    /\ continu' = "True"
    /\ UNCHANGED <<mode, interpvars, mainvars,
                   args, softtimeout, timeout, now, ncalls,
                   stats, idx, locals, stat_errno, stop_requested>>

\* Lines 203-208: sleep, read the clock, leave the loop at a deadline.
Sleep ==
    /\ mode = "watch" /\ pc = "while"
    /\ WhileCond(ncalls, now)
    /\ sleep_dur >= 0
    /\ continu' = "True"
    /\ \E t \in ClockReadings(now + sleep_dur) :
         /\ now' = t
         /\ IF DeadlineReached(ncalls, t)
            THEN /\ Leave(ncalls, t)
                 /\ idx' = idx
            ELSE /\ pc' = "for"
                 /\ idx' = 1
                 /\ UNCHANGED <<outcome, retval>>
    /\ UNCHANGED <<mode, interpvars, mainvars,
                   args, softtimeout, timeout, ncalls,
                   stats, locals, stat_errno, stop_requested>>

\* Lines 239-246 without line 238: the status of the path is not recorded.
AfterPath_NoUpdate(p, next, nc, ret) ==
    /\ stats' = stats
    /\ \E t \in ClockReadings(now) :
         /\ now' = t
         /\ IF StopAfterPath(nc, t)
            THEN /\ continu' = "False"
                 /\ Leave(nc, t)
                 /\ idx' = idx
            ELSE /\ continu' = ret
                 /\ pc' = IF idx < Len(watchlist) THEN "for" ELSE "endfor"
                 /\ idx' = idx + 1
                 /\ UNCHANGED <<outcome, retval>>

\* Lines 238-239 without lines 240-246: the for loop always goes on to the
\* next path.
AfterPath_NoRecheck(p, next, nc, ret) ==
    /\ stats' = [stats EXCEPT ![p] = next]
    /\ \E t \in ClockReadings(now) : now' = t
    /\ continu' = ret
    /\ pc' = IF idx < Len(watchlist) THEN "for" ELSE "endfor"
    /\ idx' = idx + 1
    /\ UNCHANGED <<outcome, retval>>

\* Lines 238-246: record the status, read the clock, re-check the end of the
\* loop, go on to the next path.  ret is the value of continu so far.
AfterPath(p, next, nc, ret) ==
    /\ stats' = [stats EXCEPT ![p] = next]
    /\ \E t \in ClockReadings(now) :
         /\ now' = t
         /\ IF StopAfterPath(nc, t)
            THEN /\ continu' = "False"
                 /\ Leave(nc, t)
                 /\ idx' = idx
            ELSE /\ continu' = ret
                 /\ pc' = IF idx < Len(watchlist) THEN "for" ELSE "endfor"
                 /\ idx' = idx + 1
                 /\ UNCHANGED <<outcome, retval>>

\* Line 213 when try_stat raises.
PathStatRaises ==
    /\ mode = "watch" /\ pc = "for"
    /\ \E r \in StatOutcomes :
         /\ try_stat_raises(r, retry)
         /\ stat_errno' = Errno(r)
         /\ Raise(try_stat_error(r))
    /\ UNCHANGED <<mode, interpvars, mainvars,
                   args, softtimeout, timeout, now, ncalls,
                   stats, idx, continu, locals, stop_requested>>

\* Lines 210-246 for a path that is missing or shows no difference.
PathQuiet ==
    /\ mode = "watch" /\ pc = "for"
    /\ \E r \in StatOutcomes :
         LET p == watchlist[idx].path
             fields == EffectiveFields(watchlist[idx].fields)
             next == try_stat(r, retry)
             last == stats[p]
             diff == IF next = None THEN {} ELSE DiffFields(fields, last, next)
         IN /\ ~try_stat_raises(r, retry)
            /\ diff = {}
            /\ stat_errno' = Errno(r)
            /\ path' = p
            /\ next_status' = next
            /\ last_status' = last
            /\ diff_fields' = IF next = None THEN diff_fields ELSE diff
            /\ cb' = None
            /\ AfterPath(p, next, ncalls, continu)
    /\ UNCHANGED <<mode, interpvars, mainvars,
                   args, softtimeout, timeout, ncalls,
                   stop_requested>>

\* Lines 210-246 for a path that differs: the callback is invoked.
PathCallback ==
    /\ mode = "watch" /\ pc = "for"
    /\ ncalls < MaxCalls
    /\ \E r \in StatOutcomes, ret \in CallbackResults :
         LET p == watchlist[idx].path
             fields == EffectiveFields(watchlist[idx].fields)
             next == try_stat(r, retry)
             last == stats[p]
             diff == IF next = None THEN {} ELSE DiffFields(fields, last, next)
         IN /\ ~try_stat_raises(r, retry)
            /\ diff # {}
            /\ stat_errno' = Errno(r)
            /\ path' = p
            /\ next_status' = next
            /\ last_status' = last
            /\ diff_fields' = diff
            /\ ncalls' = ncalls + 1
            /\ cb' = [path |-> p, diff |-> diff, old |-> last, new |-> next]
            /\ stop_requested' = (ret = "False")
            /\ IF CallbackStops(ret)
               THEN \* lines 235-236 and 248-249: both loops are left
                    /\ continu' = ret
                    /\ Leave(ncalls + 1, now)
                    /\ UNCHANGED <<stats, now, idx>>
               ELSE AfterPath(p, next, ncalls + 1, ret)
    /\ UNCHANGED <<mode, interpvars, mainvars, args, softtimeout, timeout>>

\* Lines 248-250: the for loop ran to its end; read the clock.
EndCycle ==
    /\ mode = "watch" /\ pc = "endfor"
    /\ \E t \in ClockReadings(now) : now' = t
    /\ pc' = "while"
    /\ UNCHANGED <<mode, interpvars, mainvars,
                   args, softtimeout, timeout, ncalls,
                   stats, idx, continu, locals, stat_errno, stop_requested,
                   outcome, retval>>

Next ==
    \/ Start
    \/ LoopExit
    \/ SleepRaises
    \/ Sleep
    \/ PathStatRaises
    \/ PathQuiet
    \/ PathCallback
    \/ EndCycle

Spec == Init /\ [][Next]_vars

(* ------------------------------------------------------------------ *)
(* main of src/src/watchstat/__main__.py: the call of watchstat and the *)
(* exit code made of its outcome (lines 205-222).                       *)
(* ------------------------------------------------------------------ *)
\* The names bound in the module __main__ when main runs: its imports
\* (lines 1-6) and its own definitions.
main_globals ==
    {"os", "sys", "argparse", "subprocess",
     "stat_info", "rstat_info", "watchstat",
     "WatchAction", "parse_args", "quote_argv", "make_command_callback",
     "main"}

\* The built-in names main's handlers use.
builtins == {"KeyboardInterrupt"}

\* Lines 215-220: the except clauses in order, with the value main returns
\* from each (the first one passes on to line 222).
handlers ==
    << [name |-> "KeyboardInterrupt", code |-> 0],
       [name |-> "SoftTimeout", code |-> 3],
       [name |-> "Timeout", code |-> 0] >>

\* isinstance(e, cls) for the exceptions of the model: lines 122-127.
IsInstance(e, cls) == e = cls \/ (e = "SoftTimeout" /\ cls = "Timeout")

Returned(code) == [kind |-> "return", code |-> code]
Raised(e) == [kind |-> "raise", exc |-> e]

\* Lines 215-220: exception e meets the k-th except clause.  The name of a
\* clause is looked up when the clause is reached; a name that is not bound
\* raises NameError.
RECURSIVE handle(_, _)
handle(e, k) ==
    IF k > Len(handlers) THEN Raised(e)
    ELSE IF handlers[k].name \notin main_globals \cup builtins
         THEN Raised("NameError")
    ELSE IF IsInstance(e, handlers[k].name) THEN Returned(handlers[k].code)
    ELSE handle(e, k + 1)

\* Lines 205-222: what main does with the outcome of watchstat.
main(out) == IF out = "return" THEN Returned(0) ELSE handle(out, 1)

\* Lines 205-222: watchstat is over, main returns or raises.
MainReturn ==
    /\ mode = "watch" /\ pc = "done"
    /\ exit_status = None
    /\ exit_status' = main(outcome)
    /\ UNCHANGED <<mode, watchvars, interpvars>>

MainNext == Next \/ MainReturn

\* watchstat as main calls it.
MainSpec == Init /\ [][MainNext]_vars

(* ------------------------------------------------------------------ *)
(* The token interpolator.  A string is a sequence of one-character     *)
(* strings; offsets are Python's, counted from 0.                       *)
(* ------------------------------------------------------------------ *)
MaxPieces == 3     \* an input string is made of at most this many pieces

\* stat_info: index -> (option letter, field name); lines 15-26.
stat_info ==
    [i \in Fields |->
        CASE i = ST_MTIME -> << <<"m">>, <<"m", "t", "i", "m", "e">> >>
          [] i = ST_ATIME -> << <<"a">>, <<"a", "t", "i", "m", "e">> >>
          [] i = ST_CTIME -> << <<"c">>, <<"c", "t", "i", "m", "e">> >>
          [] i = ST_DEV   -> << <<"d">>, <<"d", "e", "v">> >>
          [] i = ST_INO   -> << <<"i">>, <<"i", "n", "o">> >>
          [] i = ST_MODE  -> << <<"M">>, <<"m", "o", "d", "e">> >>
          [] i = ST_NLINK -> << <<"n">>, <<"n", "l", "i", "n", "k">> >>
          [] i = ST_UID   -> << <<"u">>, <<"u", "i", "d">> >>
          [] i = ST_GID   -> << <<"g">>, <<"g", "i", "d">> >>
          [] i = ST_SIZE  -> << <<"s">>, <<"s", "i", "z", "e">> >>]

\* _reverse_stat_info: option letter or field name -> index; lines 29-34.
reverse_stat_info(info) ==
    [k \in {info[i][1] : i \in DOMAIN info} \cup {info[i][2] : i \in DOMAIN info}
        |-> CHOOSE i \in DOMAIN info : info[i][1] = k \/ info[i][2] = k]

rstat_info == reverse_stat_info(stat_info)

UpperCase == <<"A", "B", "C", "D", "E", "F", "G", "H", "I", "J", "K", "L", "M",
               "N", "O", "P", "Q", "R", "S", "T", "U", "V", "W", "X", "Y", "Z">>
LowerCase == <<"a", "b", "c", "d", "e", "f", "g", "h", "i", "j", "k", "l", "m",
               "n", "o", "p", "q", "r", "s", "t", "u", "v", "w", "x", "y", "z">>

\* str.lower()
lower(s) ==
    [k \in 1..Len(s) |->
        IF \E j \in 1..Len(UpperCase) : UpperCase[j] = s[k]
        THEN LowerCase[CHOOSE j \in 1..Len(UpperCase) : UpperCase[j] = s[k]]
        ELSE s[k]]

Digits == <<"0", "1", "2", "3", "4", "5", "6", "7", "8", "9">>

\* repr() of a non-negative integer: its decimal digits.
RECURSIVE repr(_)
repr(n) == IF n < 10 THEN <<Digits[n + 1]>>
           ELSE repr(n \div 10) \o <<Digits[(n % 10) + 1]>>

\* string[a:b] for 0 <= a
Slice(s, a, b) == SubSeq(s, a + 1, Min2(b, Len(s)))

\* string.find(sub, start): the lowest offset >= start where sub occurs, or -1.
find(s, sub, start) ==
    LET hits == {i \in start..(Len(s) - Len(sub)) : Slice(s, i, i + Len(sub)) = sub}
    IN IF hits = {} THEN -1 ELSE CHOOSE i \in hits : \A j \in hits : i <= j

\* Lines 50-70: the loop of find_tokens from delim_offset on; toks are the
\* tokens yielded so far.  mismatch: the generator ends by raising ValueError.
RECURSIVE find_tokens_loop(_, _, _, _)
find_tokens_loop(s, d, delim_offset, toks) ==
    IF delim_offset < 0 THEN [tokens |-> toks, mismatch |-> FALSE]
    ELSE LET token_offset == delim_offset
             key_offset == token_offset + Len(d)
             closing == find(s, d, key_offset)
         IN IF closing < 0 THEN [tokens |-> toks, mismatch |-> TRUE]
            ELSE find_tokens_loop(s, d, find(s, d, closing + Len(d)),
                    IF closing # key_offset
                    THEN Append(toks, [offset |-> token_offset,
                                       key |-> Slice(s, key_offset, closing)])
                    ELSE toks)

\* Lines 40-70.
find_tokens(s, d) == find_tokens_loop(s, d, find(s, d, 0), << >>)

Ok(v) == [kind |-> "ok", value |-> v]
Error(kind, msg, key) == [kind |-> kind, msg |-> msg, key |-> key]

\* Lines 93-100 with line 100 missing: an unknown key is replaced by nothing.
Substitute_Silent(key, st, extra) ==
    IF lower(key) \in DOMAIN rstat_info
    THEN IF key \in DOMAIN rstat_info
         THEN Ok(repr(st[rstat_info[key]]))
         ELSE Error("KeyError", "", key)
    ELSE IF key \in DOMAIN extra
    THEN IF lower(key) \in DOMAIN extra
         THEN Ok(extra[lower(key)])
         ELSE Error("KeyError", "", lower(key))
    ELSE Ok(<< >>)

\* Lines 93-100: what a token's key is replaced by, or the exception raised.
Substitute(key, st, extra) ==
    IF lower(key) \in DOMAIN rstat_info
    THEN IF key \in DOMAIN rstat_info
         THEN Ok(repr(st[rstat_info[key]]))
         ELSE Error("KeyError", "", key)
    ELSE IF key \in DOMAIN extra
    THEN IF lower(key) \in DOMAIN extra
         THEN Ok(extra[lower(key)])
         ELSE Error("KeyError", "", lower(key))
    ELSE Error("ValueError", "bad stat key", key)

\* Line 103 with the closing delimiter not skipped.
SkipToken_OneDelim(offset, key, d) == offset + Len(key) + Len(d)

\* Line 103: the offset just past a token.
SkipToken(offset, key, d) == offset + Len(key) + 2 * Len(d)

\* Lines 88-107: the for loop over the tokens from the k-th on, then the tail.
RECURSIVE interpolate_loop(_, _, _, _, _, _, _, _)
interpolate_loop(s, d, st, extra, toks, k, last_offset, interp) ==
    IF k > Len(toks.tokens)
    THEN IF toks.mismatch
         THEN Error("ValueError", "delimiter mismatch", << >>)
         ELSE Ok(interp \o Slice(s, last_offset, Len(s)))
    ELSE LET offset == toks.tokens[k].offset
             key == toks.tokens[k].key
             copied == interp \o Slice(s, last_offset, offset)
             sub == IF key # << >> THEN Substitute(key, st, extra) ELSE Ok(<< >>)
         IN IF sub.kind # "ok" THEN sub
            ELSE interpolate_loop(s, d, st, extra, toks, k + 1,
                                  SkipToken(offset, key, d),
                                  copied \o sub.value)

\* Lines 73-107.
interpolate_argument(s, d, st, extra) ==
    interpolate_loop(s, d, st, extra, find_tokens(s, d), 1, 0, << >>)

(* The inputs the interpolator is applied to. *)
Pieces ==
    { <<"%">>, <<"%", "%">>, <<"x">>, <<"a">>, <<"A">>, <<"M">>,
      <<"%", "m", "%">>,
      <<"m", "t", "i", "m", "e">>, <<"M", "T", "I", "M", "E">>,
      <<"p", "a", "t", "h">>, <<"P", "A", "T", "H">> }

RECURSIVE Strings(_)
Strings(n) ==
    IF n = 0 THEN { << >> }
    ELSE Strings(n - 1) \cup {s \o p : s \in Strings(n - 1), p \in Pieces}

Delims == { <<"%">>, <<"%", "%">> }

ExtraKeys == { << >>, (<<"p", "a", "t", "h">> :> <<"/", "f">>) }

\* The watch loop's variables while the interpolator runs.
WatchIdle ==
    /\ pc = "idle"
    /\ watchlist = << >>
    /\ interval = 0 /\ limit = 0 /\ retry = FALSE
    /\ softtimeout = 0 /\ timeout = 0 /\ now = 0 /\ ncalls = 0
    /\ stats = None /\ idx = 0 /\ continu = "True" /\ path = NoPath
    /\ last_status = None /\ next_status = None /\ diff_fields = {}
    /\ stat_errno = "OK" /\ stop_requested = FALSE
    /\ cb = None /\ outcome = "running" /\ retval = None

InterpInit ==
    /\ mode = "interp"
    /\ WatchIdle
    /\ string \in Strings(MaxPieces)
    /\ delim \in Delims
    /\ status \in StatResults
    /\ extra_keys \in ExtraKeys
    /\ result = None
    /\ argv = << >>
    /\ exit_status = None

\* A call of interpolate_argument(string, delim, status, **extra_keys).
Interpolate ==
    /\ mode = "interp"
    /\ result = None
    /\ result' = interpolate_argument(string, delim, status, extra_keys)
    /\ UNCHANGED <<mode, watchvars, mainvars, string, delim, status,
                   extra_keys, argv>>

InterpNext == Interpolate

InterpSpec == InterpInit /\ [][InterpNext]_vars

(* ------------------------------------------------------------------ *)
(* interpolate_argument_vector                                          *)
(* ------------------------------------------------------------------ *)
MaxArgs == 3       \* an argument vector has at most this many elements

\* Lines 117-119: the list comprehension from the k-th element of argv on;
\* acc is the list built so far.  The first exception ends the call.
RECURSIVE vector_loop(_, _, _, _, _, _)
vector_loop(av, d, st, extra, k, acc) ==
    IF k > Len(av) THEN Ok(acc)
    ELSE LET r == interpolate_argument(av[k], d, st, extra)
         IN IF r.kind # "ok" THEN r
            ELSE vector_loop(av, d, st, extra, k + 1, Append(acc, r.value))

\* Lines 117-119 with the command name interpolated like the arguments.
interpolate_argument_vector_FromFirst(av, d, st, extra) ==
    IF av = << >> THEN Error("IndexError", "list index out of range", << >>)
    ELSE vector_loop(av, d, st, extra, 1, << >>)

\* Lines 110-119.
interpolate_argument_vector(av, d, st, extra) ==
    IF av = << >> THEN Error("IndexError", "list index out of range", << >>)
    ELSE vector_loop(av, d, st, extra, 2, <<av[1]>>)

\* The strings an argument vector is made of.
ArgStrings ==
    { <<"x">>, <<"%">>, <<"%", "m", "%">>, <<"%", "x", "%">>,
      <<"%", "x", "%", "%">>, <<"%", "%", "%">> }

RECURSIVE Vectors(_)
Vectors(n) ==
    IF n = 0 THEN { << >> }
    ELSE Vectors(n - 1) \cup
         {Append(v, a) : v \in {w \in Vectors(n - 1) : Len(w) = n - 1},
                         a \in ArgStrings}

VectorInit ==
    /\ mode = "vector"
    /\ WatchIdle
    /\ string = << >>
    /\ argv \in Vectors(MaxArgs)
    /\ delim \in Delims
    /\ status \in StatResults
    /\ extra_keys \in ExtraKeys
    /\ result = None
    /\ exit_status = None

\* A call of interpolate_argument_vector(argv, delim, status, **extra_keys).
InterpolateVector ==
    /\ mode = "vector"
    /\ result = None
    /\ result' = interpolate_argument_vector(argv, delim, status, extra_keys)
    /\ UNCHANGED <<mode, watchvars, mainvars, string, delim, status,
                   extra_keys, argv>>

VectorNext == InterpolateVector

VectorSpec == VectorInit /\ [][VectorNext]_vars

(* ------------------------------------------------------------------ *)
(* Properties of the watch loop (checked under Spec)                    *)
(* ------------------------------------------------------------------ *)
OSErrors == {"OSError", "OSError_ENOENT"}

Exceptions == OSErrors \cup {"ValueError"}

\* The watch-list entry of path p.
Entry(p) == watchlist[CHOOSE i \in 1..Len(watchlist) : watchlist[i].path = p]

\* C1: with limit = N > 0 the callback is never invoked more than N times,
\* and a run that ends without an exception, without the callback asking to
\* stop and without a deadline reached (not calls-made = 0 at or past the soft
\* deadline, not at or past the hard deadline) has made exactly N invocations
\* and returns N.
C1_LimitExact ==
    limit > 0 =>
      /\ ncalls <= limit
      /\ ( /\ pc = "done"
           /\ outcome \notin Exceptions
           /\ ~stop_requested
           /\ ~(ncalls = 0 /\ now >= softtimeout)
           /\ now < timeout )
         => (outcome = "return" /\ ncalls = limit /\ retval = limit)

C1_Witness ==
    /\ pc = "done" /\ limit = 2 /\ ~stop_requested
    /\ outcome = "return" /\ retval = 2 /\ ncalls = 2

\* C2: SoftTimeout is signalled only with zero callback invocations and a
\* last clock reading at or past the soft deadline; and once a clock reading
\* at or past the soft deadline is made with zero invocations, the loop does
\* nothing more and ends in SoftTimeout, whether or not the hard deadline has
\* elapsed.
C2_SoftTimeoutOnlyWithoutCalls ==
    /\ outcome = "SoftTimeout" => (ncalls = 0 /\ now >= softtimeout)
    /\ (pc # "start" /\ ncalls = 0 /\ now >= softtimeout) =>
          \/ pc = "done" /\ outcome = "SoftTimeout"
          \/ pc = "while" /\ ~WhileCond(ncalls, now)

C2_Witness ==
    /\ pc = "done" /\ outcome = "SoftTimeout"
    /\ timeout < sys_maxsize /\ now < timeout

C4_CreatedPathFiresFullDiff ==
    (pc # "start" /\ path # NoPath) =>
      /\ (retry /\ last_status = None /\ next_status # None) =>
            /\ cb # None
            /\ cb.path = path /\ cb.old = None /\ cb.new = next_status
            /\ cb.diff = IF Entry(path).fields = {} THEN {ST_MTIME}
                         ELSE Entry(path).fields
      /\ next_status = None => (cb = None /\ stats[path] = None)

C4_Witness ==
    /\ retry /\ path # NoPath /\ last_status = None /\ next_status # None
    /\ cb # None /\ cb.diff = {ST_MTIME, ST_ATIME}
    /\ \A f \in Fields : next_status[f] = 0

\* C5: for a watch entry with an empty field set and a path present in both
\* the last-known and the fresh status, the callback fires iff mtime differs,
\* and then with diff = {mtime}: a change of access time alone fires nothing.
C5_EmptyFieldsWatchMtime ==
    ( /\ pc # "start" /\ path # NoPath
      /\ Entry(path).fields = {}
      /\ last_status # None /\ next_status # None ) =>
        /\ cb # None <=> last_status[ST_MTIME] # next_status[ST_MTIME]
        /\ cb # None => cb.diff = {ST_MTIME}

C5_Witness ==
    /\ path # NoPath /\ Entry(path).fields = {}
    /\ last_status # None /\ next_status # None
    /\ last_status[ST_ATIME] # next_status[ST_ATIME]
    /\ last_status[ST_MTIME] = next_status[ST_MTIME]
    /\ cb = None

\* The states a stop request allows, and the normal returns without one.
C6_StopState ==
    /\ stop_requested =>
         (pc = "done" /\ outcome = "return" /\ retval = ncalls /\ ncalls >= 1)
    /\ (pc = "done" /\ outcome = "return" /\ ~stop_requested) =>
         (limit > 0 /\ ncalls = limit)

\* The step that takes the stop request does nothing but count the call,
\* and no step follows it.
C6_StopStep ==
    /\ stop_requested => UNCHANGED watchvars
    /\ (~stop_requested /\ stop_requested') =>
          (ncalls' = ncalls + 1 /\ UNCHANGED <<stats, now, idx>>)

\* C6: when the callback returns False the loop is over at once: watchstat
\* returns the count of invocations made (no Timeout, no SoftTimeout), and no
\* stat, callback, clock reading or snapshot update follows; a callback that
\* returns True or None does not end the loop: without a stop request a
\* normal return happens only at the limit.
C6_CallbackFalseStopsLoop == []C6_StopState /\ [][C6_StopStep]_vars

C6_Witness ==
    /\ stop_requested /\ pc = "done" /\ outcome = "return"
    /\ Len(watchlist) = 2 /\ idx = 1 /\ retval = 1
    /\ timeout < sys_maxsize

\* What the errno of the last os.stat call and the outcome say of each other.
C7_ErrorState ==
    /\ (stat_errno = "ENOENT" /\ ~retry) =>
          (pc = "done" /\ outcome = "OSError_ENOENT")
    /\ stat_errno = "EACCES" => (pc = "done" /\ outcome = "OSError")
    /\ outcome = "OSError_ENOENT" => (~retry /\ stat_errno = "ENOENT")
    /\ outcome = "OSError" => stat_errno = "EACCES"

\* The step that raises the OSError changes nothing else, and none follows.
C7_ErrorStep ==
    /\ (outcome \notin OSErrors /\ outcome' \in OSErrors) =>
          UNCHANGED <<ncalls, stats, cb, now>>
    /\ outcome \in OSErrors => UNCHANGED watchvars

\* C7: with retry disabled an os.stat that fails with ENOENT, at
\* initialization or in a later poll, ends watchstat at once with that
\* OSError: the failing step invokes no callback and records no snapshot,
\* and neither Timeout nor SoftTimeout is signalled; with retry enabled
\* ENOENT never ends watchstat; any other errno ends it whatever retry is.
C7_MissingPathFatalWithoutRetry == []C7_ErrorState /\ [][C7_ErrorStep]_vars

C7_Witness ==
    /\ pc = "done" /\ outcome = "OSError_ENOENT" /\ ~retry
    /\ ncalls >= 1 /\ stat_errno = "ENOENT"

\* C15 as stated: once the callback has been invoked for a path, the
\* last-known snapshot of that path is the snapshot it was invoked with as
\* new, whatever the callback returned.
C15_SnapshotUpdatedAlways ==
    cb # None => stats[cb.path] = cb.new

\* C15: once the callback has been invoked for a path and has returned True
\* or None, the last-known snapshot of that path is the snapshot just taken;
\* when it has returned False the loop is over and the last-known snapshot
\* of that path is still the one from before.
C15_SnapshotUpdatedUnlessStopped ==
    cb # None =>
      IF stop_requested
      THEN pc = "done" /\ stats[cb.path] = cb.old
      ELSE stats[cb.path] = cb.new

C15_Witness ==
    /\ cb # None /\ ~stop_requested
    /\ pc = "for" /\ continu = "None"
    /\ cb.old # None /\ cb.old # cb.new
    /\ stats[cb.path] = cb.new

\* The termination conditions after a path, for call count nc and clock
\* reading n: the limit reached, the hard deadline reached, or the soft
\* deadline reached with no call made.
C16_MustStop(nc, n) ==
    \/ limit > 0 /\ nc >= limit
    \/ n >= timeout
    \/ nc = 0 /\ n >= softtimeout

\* One step of the loop: a cycle begins at the first entry, a poll takes the
\* entry idx and moves on by one unless it has to stop, and outside the for
\* loop no path is polled.
C16_PollStep ==
    /\ (pc = "while" /\ pc' = "for") => idx' = 1
    /\ (pc = "for" /\ outcome' \notin OSErrors) =>
          /\ path' = watchlist[idx].path
          /\ IF C16_MustStop(ncalls', now') \/ stop_requested'
             THEN pc' = "done" /\ idx' = idx
             ELSE /\ idx' = idx + 1
                  /\ pc' = IF idx < Len(watchlist) THEN "for" ELSE "endfor"
    /\ pc \in {"while", "endfor", "done"} =>
          UNCHANGED <<stats, ncalls, locals, stat_errno>>

\* C16: within a poll cycle the entries are polled in watch-list order, and
\* after every path the termination conditions are checked again: once the
\* limit is reached, or the hard deadline, or the soft deadline with no call
\* made, the loop is over, and no later path of the cycle is statted, gets a
\* callback or has its snapshot changed.
C16_StopAfterEachPath == [][C16_PollStep]_vars

\* limit = 1 and two entries: the callback of the first entry ended the
\* loop, the clock below both deadlines, and the second was not polled.
C16_Witness ==
    /\ pc = "done" /\ limit = 1 /\ Len(watchlist) = 2 /\ idx = 1
    /\ ncalls = 1 /\ ~stop_requested /\ outcome = "return"
    /\ cb # None /\ cb.path = watchlist[1].path
    /\ now < timeout

\* The configured fields of path p: modification time when none is given.
Configured(p) ==
    IF Entry(p).fields = {} THEN {ST_MTIME} ELSE Entry(p).fields

\* After a poll of a path: the callback was invoked iff a configured field
\* differs, with exactly the differing fields; and while the loop goes on
\* the snapshot just taken is the last-known one.
C17_DiffState ==
    /\ cb # None => cb.diff # {}
    /\ (pc # "start" /\ path # NoPath /\ ~stop_requested) =>
          stats[path] = next_status
    /\ ( /\ pc # "start" /\ path # NoPath
         /\ last_status # None /\ next_status # None ) =>
          LET differ == {f \in Configured(path) :
                           last_status[f] # next_status[f]}
          IN /\ cb # None <=> differ # {}
             /\ cb # None =>
                   /\ cb.diff = differ
                   /\ cb.path = path
                   /\ cb.old = last_status /\ cb.new = next_status

\* A poll compares with the last-known snapshot, and one that finds the
\* configured fields as they are in it invokes no callback.
C17_PollStep ==
    (pc = "for" /\ outcome' \notin OSErrors) =>
      /\ last_status' = stats[path']
      /\ ( /\ stats[path'] # None /\ next_status' # None
           /\ \A f \in Configured(path') :
                 next_status'[f] = stats[path'][f] )
         => (cb' = None /\ ncalls' = ncalls)

\* C17: for a path present in the last-known and in the fresh snapshot the
\* callback is invoked iff a configured field differs, and its diff is
\* exactly the set of configured fields that differ, never empty; the fresh
\* snapshot becomes the last-known one, so a poll that finds the metadata
\* as the previous poll left it invokes nothing: one change, one call.
C17_CallbackIffDiffers == []C17_DiffState /\ [][C17_PollStep]_vars

\* Two fields are configured and only one of them differs.
C17_Witness ==
    /\ cb # None /\ cb.old # None
    /\ Configured(cb.path) = {ST_MTIME, ST_ATIME}
    /\ cb.diff = {ST_ATIME}
    /\ ~stop_requested /\ stats[cb.path] = cb.new

\* C18: every sleep the loop asks for is a valid bounded wait: whenever a
\* cycle is entered, min(soft deadline - now, hard deadline - now,
\* interval/1000) is not negative, is at most interval/1000 and does not end
\* after the hard deadline, also with calls made and the soft deadline
\* passed.
C18_SleepValid ==
    (pc = "while" /\ WhileCond(ncalls, now)) =>
      /\ sleep_dur >= 0
      /\ sleep_dur <= interval \div 1000
      /\ now + sleep_dur <= timeout

\* The hard timeout is enabled.
HardTimeoutEnabled ==
    IF pc = "start" THEN timeout # 0 ELSE timeout < sys_maxsize

\* C19: with the hard timeout enabled, watchstat ends in one of its final
\* outcomes, the normal return of the call count, SoftTimeout, Timeout or
\* the error of a stat; and no path is polled in a cycle at a clock reading
\* at or past the hard deadline.
C19_EndsInFinalOutcome ==
    HardTimeoutEnabled =>
      /\ pc = "done" =>
            outcome \in {"return", "SoftTimeout", "Timeout"} \cup OSErrors
      /\ pc = "for" => now < timeout

\* The call counter and the returned value in every state.
C20_CountState ==
    /\ ncalls >= 0
    /\ pc = "start" => ncalls = 0
    /\ (pc = "done" /\ outcome = "return") => retval = ncalls
    /\ (pc = "done" /\ outcome # "return") => retval = None

\* The step of a poll that invokes the callback counts one call; no other
\* step changes the counter, and no step changes the watch-list.
C20_CountStep ==
    /\ ncalls' = IF pc = "for" /\ outcome' \notin OSErrors /\ cb' # None
                 THEN ncalls + 1 ELSE ncalls
    /\ watchlist' = watchlist

\* C20: the value watchstat returns on normal completion is the number of
\* callback invocations it made: the counter starts at 0, goes up by one
\* with each invocation and changes at no other point; the watch-list is
\* not changed.
C20_ReturnsCallCount == []C20_CountState /\ [][C20_CountStep]_vars

\* Without a limit, two calls were made before the callback asked to stop.
C20_Witness ==
    /\ pc = "done" /\ outcome = "return" /\ limit = 0
    /\ ncalls = 2 /\ retval = 2 /\ stop_requested

(* ------------------------------------------------------------------ *)
(* Properties of the interpolator (checked under InterpSpec)            *)
(* ------------------------------------------------------------------ *)
\* str.split(d): the spans of s between the occurrences of d, left to right.
RECURSIVE Split(_, _)
Split(s, d) ==
    LET i == find(s, d, 0)
    IN IF i < 0 THEN <<s>>
       ELSE <<Slice(s, 0, i)>> \o Split(Slice(s, i + Len(d), Len(s)), d)

\* s holds an even number of delimiters: every second span is a key.
Balanced(s, d) == Len(Split(s, d)) % 2 = 1

\* The spans of a balanced string from the k-th on, put together again with
\* every non-empty key replaced by its value and every empty key by e.
RECURSIVE Rebuild(_, _, _, _, _)
Rebuild(parts, k, st, extra, e) ==
    IF k > Len(parts) THEN << >>
    ELSE (IF k % 2 = 1 THEN parts[k]
          ELSE IF parts[k] = << >> THEN e
          ELSE Substitute(parts[k], st, extra).value)
         \o Rebuild(parts, k + 1, st, extra, e)

\* C8: interpolate_argument returns a string without any delimiter, and a
\* balanced string without any token (all keys empty), unchanged; and for a
\* balanced string it interpolates, the output is the spans outside the
\* tokens, verbatim and in order, with each token's value between them (a
\* pair of delimiters around an empty key is no token and is copied).
C8_NonTokenSpansVerbatim ==
    result # None =>
      LET parts == Split(string, delim)
      IN /\ Len(parts) = 1 => result = Ok(string)
         /\ ( /\ Balanced(string, delim)
              /\ \A k \in 1..Len(parts) : k % 2 = 0 => parts[k] = << >> )
            => result = Ok(string)
         /\ (Balanced(string, delim) /\ result.kind = "ok") =>
               result.value =
                  Rebuild(parts, 1, status, extra_keys, delim \o delim)

C8_Witness ==
    /\ result # None /\ result.kind = "ok"
    /\ Len(find_tokens(string, delim).tokens) >= 1
    /\ Split(string, delim)[1] # << >>
    /\ result.value # string

\* C9: a pair of adjacent delimiters (an empty key) is dropped from the
\* output: for a balanced string that is interpolated, the output is the
\* spans and the token values with nothing in place of an empty key (with
\* delimiter %, a%%x yields ax).
C9_EmptyKeyDropped ==
    (result # None /\ Balanced(string, delim) /\ result.kind = "ok") =>
        result.value =
           Rebuild(Split(string, delim), 1, status, extra_keys, << >>)

\* The registry field a key names: the key as written if that is a registry
\* name, its lower-case form otherwise.
FieldOfKey(key) ==
    IF key \in DOMAIN rstat_info THEN rstat_info[key]
    ELSE rstat_info[lower(key)]

\* C10: a string that is one token whose key is a registry name in any
\* letter case is replaced by the text of that field's value, and
\* interpolate_argument does not fail.
C10_RegistryKeyAnyCase ==
    LET parts == Split(string, delim)
    IN ( /\ result # None
         /\ Len(parts) = 3 /\ parts[1] = << >> /\ parts[3] = << >>
         /\ parts[2] # << >>
         /\ lower(parts[2]) \in DOMAIN rstat_info )
       => result = Ok(repr(status[FieldOfKey(parts[2])]))

\* C11: a string that is one token whose key is, in any letter case, a key of
\* the extra-values mapping (and no registry name) is replaced by that key's
\* value: with the extra value path, %path%, %PATH% and %Path% all yield it.
C11_ExtraKeyAnyCase ==
    LET parts == Split(string, delim)
    IN ( /\ result # None
         /\ Len(parts) = 3 /\ parts[1] = << >> /\ parts[3] = << >>
         /\ parts[2] # << >>
         /\ lower(parts[2]) \notin DOMAIN rstat_info
         /\ lower(parts[2]) \in DOMAIN extra_keys )
       => result = Ok(extra_keys[lower(parts[2])])

\* A key that is neither a registry name nor an extra key, in any letter case.
Unknown(key) ==
    /\ lower(key) \notin DOMAIN rstat_info
    /\ lower(key) \notin DOMAIN extra_keys

\* A key the lookups of lines 94-98 find as it is written.
Resolves(key) ==
    \/ key \in DOMAIN rstat_info
    \/ lower(key) \notin DOMAIN rstat_info /\ key \in DOMAIN extra_keys

\* C12: when a token of the string has an unknown key, interpolate_argument
\* fails, and with an error about a key: not the delimiter mismatch, and
\* never a returned string (the key dropped, copied or replaced by nothing).
\* The error names the first key that is not resolved, so the first unknown
\* key itself, as ValueError "bad stat key", when the tokens before it
\* resolve.
C12_UnknownKeyFails ==
    LET toks == find_tokens(string, delim).tokens
        U == {i \in 1..Len(toks) : Unknown(toks[i].key)}
        i0 == CHOOSE i \in U : \A j \in U : i <= j
    IN (result # None /\ U # {}) =>
         /\ result.kind \in {"ValueError", "KeyError"}
         /\ result.msg # "delimiter mismatch"
         /\ \E j \in 1..i0 : result.key = toks[j].key
         /\ (\A j \in 1..(i0 - 1) : Resolves(toks[j].key)) =>
               result = Error("ValueError", "bad stat key", toks[i0].key)

\* The unknown key x is reported although the string ends in a delimiter
\* without its pair.
C12_Witness ==
    /\ result = Error("ValueError", "bad stat key", <<"x">>)
    /\ find_tokens(string, delim).mismatch
    /\ Unknown(<<"x">>)

(* ------------------------------------------------------------------ *)
(* Properties of interpolate_argument_vector (checked under VectorSpec) *)
(* ------------------------------------------------------------------ *)
\* The arguments after the first with an odd number of delimiters.
OddArgs == {k \in 2..Len(argv) : ~Balanced(argv[k], delim)}

\* Every token key of the argument resolves.
AllResolve(arg) ==
    \A i \in 1..Len(find_tokens(arg, delim).tokens) :
        Resolves(find_tokens(arg, delim).tokens[i].key)

\* C13 as stated: an argument after the first with an odd number of
\* delimiters makes interpolate_argument_vector fail with the delimiter
\* mismatch error whatever the other arguments contain, and a vector that is
\* returned begins with argv[0] as it was given.
C13_OddDelimiterMismatchError ==
    result # None =>
      /\ OddArgs # {} =>
            result = Error("ValueError", "delimiter mismatch", << >>)
      /\ result.kind = "ok" => result.value[1] = argv[1]

\* C13: an argument after the first with an odd number of delimiters makes
\* interpolate_argument_vector fail as a whole, whatever the other arguments
\* contain: no vector is returned.  The error is the delimiter mismatch when
\* the token keys of that argument and of the arguments before it resolve,
\* and otherwise the error of a key.  A vector that is returned has the
\* length of argv and begins with argv[0] as it was given.
C13_OddDelimiterFailsCall ==
    result # None =>
      /\ OddArgs # {} =>
            LET k0 == CHOOSE k \in OddArgs : \A j \in OddArgs : k <= j
            IN /\ result.kind \in {"ValueError", "KeyError"}
               /\ (\A j \in 2..k0 : AllResolve(argv[j])) =>
                     result = Error("ValueError", "delimiter mismatch", << >>)
               /\ result.msg # "delimiter mismatch" => result.key # << >>
      /\ result.kind = "ok" =>
            /\ Len(result.value) = Len(argv)
            /\ result.value[1] = argv[1]

\* The last of three arguments has an odd number of delimiters, the one
\* before it is interpolated, and the command name is itself a bad token.
C13_Witness ==
    /\ result = Error("ValueError", "delimiter mismatch", << >>)
    /\ Len(argv) = 3
    /\ argv[1] = <<"%", "x", "%">>
    /\ argv[2] = <<"%", "m", "%">> /\ delim = <<"%">>
    /\ OddArgs = {3}

(* ------------------------------------------------------------------ *)
(* Properties of main (checked under MainSpec)                          *)
(* ------------------------------------------------------------------ *)
\* C14: main returns 3 when watchstat signals SoftTimeout, 0 when it signals
\* Timeout and 0 when it returns normally.
C14_ExitCodes ==
    exit_status # None =>
      /\ outcome = "SoftTimeout" => exit_status = Returned(3)
      /\ outcome = "Timeout" => exit_status = Returned(0)
      /\ outcome = "return" => exit_status = Returned(0)

====
